---- MODULE Spec2Model ----
(***************************************************************************)
(* A model of the TorControl client (src/src/index.ts): one session object *)
(* with its socket(s), the one-shot 'data' listeners registered on them,   *)
(* the promises returned by connect / sendCommand / disconnect, and the    *)
(* reply parser of sendCommand's data handler.                             *)
(*                                                                         *)
(* Text is modelled as a sequence of one-character strings, so that        *)
(* substring, split and Number act on characters as the code does.         *)
(***************************************************************************)
EXTENDS Integers, Sequences, FiniteSets, TLC

\* ------------------------------------------------------------------ bounds
MaxLines == 2
MaxTailLen == 2
MaxSockets == 1
MaxCalls == 2
MaxDisconnects == 2
MaxValueLen == 2

\* ------------------------------------------------------------------ text
CR == "\r"
LF == "\n"
CRLF == <<CR, LF>>

\* The value Number() yields for text that is no numeric literal.  Three
\* characters never denote a number this small, so it collides with no code.
NaN == -1000

Min(a, b) == IF a < b THEN a ELSE b

\* String.prototype.substring(from, to) with 0-based offsets, clamped.
Substring(s, from, to) == SubSeq(s, Min(from, Len(s)) + 1, Min(to, Len(s)))

\* String.prototype.substring(from): the text from offset `from` on.
SubstringFrom(s, from) == SubSeq(s, Min(from, Len(s)) + 1, Len(s))

Digits == <<"0", "1", "2", "3", "4", "5", "6", "7", "8", "9">>

IsDigit(c) == \E i \in 1..Len(Digits) : Digits[i] = c

DigitVal(c) == (CHOOSE i \in 1..Len(Digits) : Digits[i] = c) - 1

IsSpace(c) == c \in {" ", CR, LF}

RECURSIVE TrimLeft(_)
TrimLeft(s) == IF s # <<>> /\ IsSpace(Head(s)) THEN TrimLeft(Tail(s)) ELSE s

RECURSIVE TrimRight(_)
TrimRight(s) ==
  IF s # <<>> /\ IsSpace(s[Len(s)]) THEN TrimRight(SubSeq(s, 1, Len(s) - 1)) ELSE s

RECURSIVE DecimalVal(_)
DecimalVal(s) ==
  IF s = <<>> THEN 0 ELSE 10 * DecimalVal(SubSeq(s, 1, Len(s) - 1)) + DigitVal(s[Len(s)])

AllDigits(s) == s # <<>> /\ \A i \in 1..Len(s) : IsDigit(s[i])

\* Number(text) for text over digits, sign, white space and letters that take
\* no part in numeric literals (no . e x b o I): white space is trimmed, the
\* empty text is 0, an optionally signed digit string is its value, anything
\* else is NaN.
Number(s) ==
  LET t == TrimRight(TrimLeft(s)) IN
    IF t = <<>> THEN 0
    ELSE IF AllDigits(t) THEN DecimalVal(t)
    ELSE IF Head(t) = "+" /\ AllDigits(Tail(t)) THEN DecimalVal(Tail(t))
    ELSE IF Head(t) = "-" /\ AllDigits(Tail(t)) THEN 0 - DecimalVal(Tail(t))
    ELSE NaN

\* str.split(/\r?\n/): cut at every LF, dropping one CR right before it; the
\* text after the last LF (possibly empty) is the last segment.
RECURSIVE SplitFrom(_, _, _)
SplitFrom(s, i, cur) ==
  IF i > Len(s) THEN <<cur>>
  ELSE IF s[i] = LF
    THEN LET seg == IF cur # <<>> /\ cur[Len(cur)] = CR
                    THEN SubSeq(cur, 1, Len(cur) - 1) ELSE cur
         IN <<seg>> \o SplitFrom(s, i + 1, <<>>)
    ELSE SplitFrom(s, i + 1, Append(cur, s[i]))

SplitLines(s) == SplitFrom(s, 1, <<>>)

ParseLineFromOffset3(line) ==
  [code |-> Number(Substring(line, 0, 3)), message |-> SubstringFrom(line, 3)]

\* One Result of the data handler: the code from the first 3 characters, the
\* message from offset 4 on.
ParseLine(line) ==
  [code |-> Number(Substring(line, 0, 3)), message |-> SubstringFrom(line, 4)]

\* The loop of the data handler: one Result per non-empty segment, in order.
RECURSIVE ParseLines(_)
ParseLines(lines) ==
  IF lines = <<>> THEN <<>>
  ELSE IF Head(lines) # <<>>
    THEN <<ParseLine(Head(lines))>> \o ParseLines(Tail(lines))
    ELSE ParseLines(Tail(lines))

\* SafeReturn: exactly one of data and error; "none" while nothing was returned.
NoReturn == [kind |-> "none", data |-> <<>>, error |-> <<>>]
ReturnData(d) == [kind |-> "data", data |-> d, error |-> <<>>]
ReturnError(e) == [kind |-> "error", data |-> <<>>, error |-> e]
\* { data: undefined }: the object an operation returns when the value it picked
\* does not exist.
ReturnUndefined == [kind |-> "undefined", data |-> <<>>, error |-> <<>>]
\* The operation's promise rejected with the exception e instead of returning.
Thrown(e) == [kind |-> "threw", data |-> <<>>, error |-> e]

\* What sendCommand's data handler resolves the promise with.
DataHandler(str) == ReturnData(ParseLines(SplitLines(str)))

\* ------------------------------------------------------------------ state
VARIABLES
  connection,     \* _connection: the socket the session holds, 0 for null
  state,          \* _state
  config,         \* _config: "" stands for an option that is not set
  errorListener,  \* whether the caller registered a listener for the session's 'error' event
  sockets,        \* every socket net.connect() returned, by number
  calls,          \* every sendCommand call, in call order
  discs,          \* every disconnect() call, in call order
  crashed,        \* an exception left an event handler or a promise chain uncaught
  pLines,         \* reply parser: the lines of a reply burst, as the daemon composed them
  pSeps,          \* reply parser: the separator after each line (<<>> after the last: none)
  pOut,           \* reply parser: what sendCommand resolved with, NoReturn before
  op,             \* convenience operation: the one called, with its arguments
  opSent,         \* convenience operation: the text it handed to conn.write, <<>> before
  opRet,          \* convenience operation: what its sendCommand returned, NoReturn before
  opOut,          \* convenience operation: what it returned itself, NoReturn before
  opSet,          \* the value the daemon holds since the last SETCONF it accepted
  given,          \* addressing: the host, port and socketPath of the constructor's argument
  addrConfig,     \* addressing: host, port and socketPath of _config
  targets         \* addressing: what each connect() handed to net.connect, in call order

svars == <<connection, state, config, errorListener, sockets, calls, discs, crashed>>
pvars == <<pLines, pSeps, pOut>>
ovars == <<op, opSent, opRet, opOut, opSet>>
avars == <<given, addrConfig, targets>>
vars == <<svars, pvars, ovars, avars>>

\* ------------------------------------------------------------------ reply bursts
CodeSamples == {<<"2", "5", "0">>, <<"5", "1", "5">>}
TailChars == {"-", "a"}

RECURSIVE SeqsUpTo(_, _)
SeqsUpTo(S, n) ==
  IF n = 0 THEN {<<>>}
  ELSE LET shorter == SeqsUpTo(S, n - 1)
       IN shorter \cup {Append(t, c) : t \in {u \in shorter : Len(u) = n - 1}, c \in S}

\* Non-empty lines free of CR and LF: a 3-character code followed by up to
\* MaxTailLen further characters, and lines too short to hold a whole code.
LineSamples ==
  {c \o t : c \in CodeSamples, t \in SeqsUpTo(TailChars, MaxTailLen)}
    \cup {<<"2">>, <<"2", "5">>}

Separators == {CRLF, <<LF>>, <<LF, CR, LF>>}

\* The burst on the wire: each line followed by its separator (the third
\* separator leaves an empty segment between two lines).
RECURSIVE Compose(_, _)
Compose(lines, seps) ==
  IF lines = <<>> THEN <<>>
  ELSE Head(lines) \o Head(seps) \o Compose(Tail(lines), Tail(seps))

\* ------------------------------------------------------------------ session
NoSocket == 0
SocketIds == 1..MaxSockets

Configs == [password : {"", "pw"}, cookiePath : {"", "cookie"}]

NewSocket ==
  [status |-> "unused",        \* unused | open | ended | closed
   written |-> <<>>,           \* the texts handed to conn.write, in order
   dataOnce |-> <<>>,          \* the once('data') listeners, in registration order
   connectResult |-> "none",   \* the promise of the connect() that opened it
   cookie |-> "none",          \* the cookie file read of that connect(): none | reading | done | failed
   hs |-> "none",              \* what the handshake listener saw: waiting | ok | bad
   endedBy |-> <<>>,           \* the disconnect() calls that called end() on it
   pendingAtError |-> {}]      \* the calls that waited for a reply on it when it emitted 'error'

ConnectErrors == {"TransportError", "HandshakeError", "NotConnected", "CookieReadError"}

\* The session as one value, so that the methods compose as they call each other.
Session ==
  [connection |-> connection, state |-> state, sockets |-> sockets,
   calls |-> calls, discs |-> discs, crashed |-> crashed]

Commit(st) ==
  /\ connection' = st.connection
  /\ state' = st.state
  /\ sockets' = st.sockets
  /\ calls' = st.calls
  /\ discs' = st.discs
  /\ crashed' = st.crashed

RECURSIVE JoinTokensNoSpace(_)
JoinTokensNoSpace(tokens) ==
  IF tokens = <<>> THEN <<>> ELSE Head(tokens) \o JoinTokensNoSpace(Tail(tokens))

\* Array.prototype.join(' '): the tokens, each a text, with one space between two.
RECURSIVE JoinTokens(_)
JoinTokens(tokens) ==
  IF tokens = <<>> THEN <<>>
  ELSE IF Len(tokens) = 1 THEN Head(tokens)
  ELSE Head(tokens) \o <<" ">> \o JoinTokens(Tail(tokens))

\* A command is a pre-formatted line or an array of tokens.
CommandLine(command) ==
  IF command.isArray THEN JoinTokens(command.parts) ELSE command.parts

Line(text) == [isArray |-> FALSE, parts |-> <<text>>]
Tokens(parts) == [isArray |-> TRUE, parts |-> parts]

QuitCommand == Line("QUIT")
AuthenticateCommand(password) ==
  [isArray |-> FALSE, parts |-> <<"AUTHENTICATE \"">> \o password \o <<"\"">>]
AuthenticateCookieCommand(hex) == [isArray |-> FALSE, parts |-> <<"AUTHENTICATE ">> \o hex]
UserCommands == {Tokens(<<<<"GETINFO">>, <<"version">>>>)}

\* Buffer.toString('hex'): two lower-case hexadecimal digits per byte.
HexDigits == <<"0", "1", "2", "3", "4", "5", "6", "7", "8", "9", "a", "b", "c", "d", "e", "f">>

RECURSIVE ToHex(_)
ToHex(bytes) ==
  IF bytes = <<>> THEN <<>>
  ELSE <<HexDigits[(Head(bytes) \div 16) + 1], HexDigits[(Head(bytes) % 16) + 1]>>
         \o ToHex(Tail(bytes))

\* The bytes of the cookie file (one fixed file), and cookieBuffer.toString('hex').trim().
CookieBytes == <<192, 12, 30>>
CookieHex == TrimRight(TrimLeft(ToHex(CookieBytes)))

\* this.emit('error', ...) on an EventEmitter throws when nobody listens.
EmitErrorThrows == ~errorListener

\* resolve(...) of the connect() promise of socket s: a promise settles once.
ResolveConnect(st, s, result) ==
  IF st.sockets[s].connectResult = "pending"
  THEN [st EXCEPT !.sockets[s].connectResult = result]
  ELSE st

\* sendCommand, up to the point where it returns its promise.
sendCommand(st, purpose, owner, command) ==
  LET call == [purpose |-> purpose, owner |-> owner, sock |-> st.connection,
               command |-> command,
               status |-> "pending", result |-> NoReturn,
               stateAtCall |-> st.state,
               downAtCall |-> (st.connection = NoSocket
                                \/ st.sockets[st.connection].status = "closed")]
  IN IF st.connection = NoSocket
     THEN IF EmitErrorThrows
          THEN [st EXCEPT !.calls = Append(@, [call EXCEPT !.status = "threw"])]
          ELSE [st EXCEPT !.calls = Append(@,
                  [call EXCEPT !.status = "error",
                               !.result = ReturnError("TorControl not connected")])]
     ELSE LET s == st.connection
              c == Len(st.calls) + 1
          IN [st EXCEPT
                !.calls = Append(@, call),
                !.sockets[s].dataOnce = Append(@, [kind |-> "command", call |-> c]),
                !.sockets[s].written = Append(@, CommandLine(command) \o <<"\r\n">>)]

solveAndPickLast(ret) ==
  IF ret.kind # "data" THEN ret
  ELSE IF ret.data = <<>> THEN ReturnUndefined
  ELSE ReturnData(ret.data[Len(ret.data)])

\* _solveAndPick on a settled SafeReturn<ResultList>: data[pick], pick = 0.
\* data[0] of an empty list is undefined; a rejected promise rejects the await.
solveAndPick(ret) ==
  IF ret.kind # "data" THEN ret
  ELSE IF ret.data = <<>> THEN ReturnUndefined
  ELSE ReturnData(ret.data[1])

\* connect()'s .then(({ error }) => ...) after authenticate: runs on an error.
AuthFailed(st, s, error) ==
  IF EmitErrorThrows THEN [st EXCEPT !.crashed = TRUE]
  ELSE ResolveConnect(st, s, error)

\* The rest of disconnect() after `await this.quit()`.
DisconnectNoRelease(st, d) ==
  IF st.connection = NoSocket
  THEN [st EXCEPT !.discs[d].pc = "threw"]
  ELSE LET s == st.connection
           after == [st EXCEPT
                       !.sockets[s].status = IF @ = "open" THEN "ended" ELSE @,
                       !.sockets[s].endedBy = Append(@, d)]
       IN [after EXCEPT !.discs[d].pc = "done",
                        !.discs[d].connAtReturn = after.connection,
                        !.discs[d].stateAtReturn = after.state]

DisconnectResume(st, d) ==
  IF st.connection = NoSocket
  THEN [st EXCEPT !.discs[d].pc = "threw"]   \* null.end(): a TypeError
  ELSE LET s == st.connection
           after == [st EXCEPT
                       !.sockets[s].status = IF @ = "open" THEN "ended" ELSE @,
                       !.sockets[s].endedBy = Append(@, d),
                       !.connection = NoSocket]
       IN [after EXCEPT !.discs[d].pc = "done",
                        !.discs[d].connAtReturn = after.connection,
                        !.discs[d].stateAtReturn = after.state]

\* What awaits call c runs once c has settled (promise reactions):
\*   auth: the .then of connect(); quit: the rest of disconnect(); user: the caller.
Settle(st, c) ==
  LET call == st.calls[c] IN
    IF call.status = "pending" THEN st
    ELSE IF call.purpose = "auth"
      THEN IF call.status = "threw" THEN [st EXCEPT !.crashed = TRUE]
           ELSE IF call.status = "error" THEN AuthFailed(st, call.owner, "NotConnected")
           ELSE st
    ELSE IF call.purpose = "quit"
      THEN IF call.status = "threw" THEN [st EXCEPT !.discs[call.owner].pc = "threw"]
           ELSE DisconnectResume(st, call.owner)
    ELSE st

RECURSIVE SettleAll(_, _)
SettleAll(st, ls) ==
  IF ls = <<>> THEN st
  ELSE IF Head(ls).kind = "command"
    THEN SettleAll(Settle(st, Head(ls).call), Tail(ls))
    ELSE SettleAll(st, Tail(ls))

\* authenticate(password)
authenticate(st, s, command) ==
  Settle(sendCommand(st, "auth", s, command), Len(st.calls) + 1)

connectCookieFirst(st) ==
  LET s == CHOOSE x \in SocketIds :
             /\ st.sockets[x].status = "unused"
             /\ \A y \in SocketIds : st.sockets[y].status = "unused" => x <= y
      opened == [st EXCEPT
                   !.connection = s,
                   !.sockets[s] = [@ EXCEPT
                       !.status = "open",
                       !.connectResult = "pending",
                       !.hs = "waiting",
                       !.dataOnce = <<[kind |-> "handshake", call |-> 0]>>]]
  IN IF config.cookiePath # ""
     THEN [opened EXCEPT !.sockets[s].cookie = "reading"]
     ELSE IF config.password # ""
     THEN authenticate(opened, s, AuthenticateCommand(<<config.password>>))
     ELSE opened

\* connect(): open the socket, register the handlers, start the authentication.
connect(st) ==
  LET s == CHOOSE x \in SocketIds :
             /\ st.sockets[x].status = "unused"
             /\ \A y \in SocketIds : st.sockets[y].status = "unused" => x <= y
      opened == [st EXCEPT
                   !.connection = s,
                   !.sockets[s] = [@ EXCEPT
                       !.status = "open",
                       !.connectResult = "pending",
                       !.hs = "waiting",
                       !.dataOnce = <<[kind |-> "handshake", call |-> 0]>>]]
  IN IF config.password # ""
     THEN authenticate(opened, s, AuthenticateCommand(<<config.password>>))
     ELSE IF config.cookiePath # ""
     THEN [opened EXCEPT !.sockets[s].cookie = "reading"]
     ELSE opened

\* authenticateWithCookie after `await promises.readFile`, and connect()'s .then.
authenticateWithCookie(st, s, readOk) ==
  IF readOk
  THEN authenticate([st EXCEPT !.sockets[s].cookie = "done"], s,
                    AuthenticateCookieCommand(CookieHex))
  ELSE AuthFailed([st EXCEPT !.sockets[s].cookie = "failed"], s, "CookieReadError")

\* disconnect(), up to its first await (and beyond when QUIT settles at once).
DisconnectAlways(conn) == TRUE

HasConnection(conn) == conn # NoSocket

disconnect(st) ==
  LET d == Len(st.discs) + 1
      c == Len(st.calls) + 1
      rec == [pc |-> "awaitQuit", call |-> 0,
              connAtCall |-> st.connection,
              connAtReturn |-> st.connection, stateAtReturn |-> st.state,
              opened |-> Cardinality({x \in SocketIds : st.sockets[x].status # "unused"}),
              prevReturned |-> (st.discs # <<>> /\ st.discs[Len(st.discs)].pc = "done")]
  IN IF HasConnection(st.connection)
     THEN Settle(sendCommand([st EXCEPT !.discs = Append(@, [rec EXCEPT !.call = c])],
                             "quit", d, QuitCommand), c)
     ELSE [st EXCEPT !.discs = Append(@, [rec EXCEPT !.pc = "done"])]

Starts250(str) == Substring(str, 0, 3) = <<"2", "5", "0">>

\* One once('data') listener runs on the chunk.
FireListener(st, s, l, str) ==
  IF l.kind = "handshake"
  THEN IF Starts250(str)
       THEN [ResolveConnect(st, s, "ok") EXCEPT !.sockets[s].hs = "ok"]
       ELSE [ResolveConnect(st, s, "HandshakeError") EXCEPT !.sockets[s].hs = "bad"]
  ELSE [st EXCEPT !.calls[l.call].status = "resolved",
                  !.calls[l.call].result = DataHandler(str)]

RECURSIVE FireAll(_, _, _, _)
FireAll(st, s, ls, str) ==
  IF ls = <<>> THEN st
  ELSE FireAll(FireListener(st, s, Head(ls), str), s, Tail(ls), str)

OnDataKeepListeners(st, s, str) ==
  LET ls == st.sockets[s].dataOnce IN
    IF ls = <<>> THEN st
    ELSE IF Head(ls).kind = "handshake" /\ ~Starts250(str) /\ EmitErrorThrows
    THEN [st EXCEPT !.sockets[s].hs = "bad", !.crashed = TRUE]
    ELSE SettleAll(FireAll(st, s, ls, str), ls)

\* The socket emits 'data': every once-listener registered at that moment runs, in
\* registration order; an exception thrown by one (the handshake listener's
\* emit('error') with nobody listening) leaves emit() and the later ones never run.
\* Then the promise reactions of the calls it resolved run, in the same order.
OnData(st, s, str) ==
  LET ls == st.sockets[s].dataOnce IN
    IF ls = <<>> THEN st
    ELSE IF Head(ls).kind = "handshake" /\ ~Starts250(str) /\ EmitErrorThrows
    THEN [st EXCEPT !.sockets[s].dataOnce = Tail(ls),
                    !.sockets[s].hs = "bad",
                    !.crashed = TRUE]
    ELSE SettleAll(FireAll([st EXCEPT !.sockets[s].dataOnce = <<>>], s, ls, str), ls)

\* conn.on('close')
OnSocketClose(st, s) ==
  [st EXCEPT !.state = "disconnected", !.sockets[s].status = "closed"]

\* conn.on('error').  The socket is destroyed by the error and emits 'close' in
\* the same tick, right after 'error', unless the error handler threw.
OnSocketError(st, s) ==
  LET waiting == {k \in 1..Len(st.calls) :
                    st.calls[k].status = "pending" /\ st.calls[k].sock = s}
      seen == [st EXCEPT !.sockets[s].pendingAtError = waiting]
  IN IF EmitErrorThrows THEN [seen EXCEPT !.crashed = TRUE]
     ELSE OnSocketClose(ResolveConnect(seen, s, "TransportError"), s)

\* ------------------------------------------------------------------ convenience operations
\* String.prototype.split(sep) for a one-character separator: every segment
\* between two separators, first and last included.
RECURSIVE SplitOnFrom(_, _, _, _)
SplitOnFrom(s, sep, i, cur) ==
  IF i > Len(s) THEN <<cur>>
  ELSE IF s[i] = sep THEN <<cur>> \o SplitOnFrom(s, sep, i + 1, <<>>)
  ELSE SplitOnFrom(s, sep, i + 1, Append(cur, s[i]))

Split(s, sep) == SplitOnFrom(s, sep, 1, <<>>)

\* String(n) for a non-negative integer.
RECURSIVE NumToString(_)
NumToString(n) ==
  IF n < 10 THEN <<Digits[n + 1]>>
  ELSE NumToString(n \div 10) \o <<Digits[(n % 10) + 1]>>

\* hop: number | undefined
NoHop == [defined |-> FALSE, n |-> 0]
Hops == {NoHop} \cup {[defined |-> TRUE, n |-> h] : h \in {0, 1, 12}}

\* hop ? String(hop) : ''
HopToken(hop) == IF hop.defined /\ hop.n # 0 THEN NumToString(hop.n) ELSE <<>>

ConfKeys == {<<"k">>}
ConfValues == SeqsUpTo({"v", "="}, MaxValueLen)

Op(name, a, b, hop) == [name |-> name, a |-> a, b |-> b, hop |-> hop]

SignalAliases ==
  {"signalReload", "signalShutdown", "signalDump", "signalDebug", "signalHalt",
   "signalTerm", "signalNewNym", "signalClearDnsCache", "signalUsr1", "signalUsr2",
   "getNewIdentity"}

\* The signal each alias passes to signal().
AliasSignal(name) ==
  CASE name = "signalReload" -> <<"RELOAD">>
    [] name = "signalShutdown" -> <<"SHUTDOWN">>
    [] name = "signalDump" -> <<"DUMP">>
    [] name = "signalDebug" -> <<"DEBUG">>
    [] name = "signalHalt" -> <<"HALT">>
    [] name = "signalTerm" -> <<"TERM">>
    [] name = "signalNewNym" -> <<"NEWNYM">>
    [] name = "signalClearDnsCache" -> <<"CLEARDNSCACHE">>
    [] name = "signalUsr1" -> <<"USR1">>
    [] name = "signalUsr2" -> <<"USR2">>
    [] name = "getNewIdentity" -> <<"NEWNYM">>

\* The calls of the public operations, with sample arguments.
Operations ==
  {Op(n, <<>>, <<>>, NoHop) : n \in SignalAliases \cup {"quit"}}
    \cup {Op("authenticate", <<"pw">>, <<>>, NoHop),
          Op("signal", <<"NEWNYM">>, <<>>, NoHop),
          Op("getInfo", <<"version">>, <<>>, NoHop),
          Op("mapAddress", <<"1.2.3.4">>, <<"tor.org">>, NoHop),
          Op("extendCircuit", <<"0">>, <<>>, NoHop),
          Op("setCircuitPurpose", <<"7">>, <<"general">>, NoHop),
          Op("setRouterPurpose", <<"r">>, <<"general">>, NoHop),
          Op("setStream", <<"3">>, <<"1">>, NoHop),
          Op("closeCircuit", <<"7">>, <<>>, NoHop)}
    \cup {Op(n, k, <<>>, NoHop) : n \in {"getConfig", "resetConfig"}, k \in ConfKeys}
    \cup {Op("setConfig", k, v, NoHop) : k \in ConfKeys, v \in ConfValues}
    \cup {Op("attachStream", <<"3">>, <<"7">>, h) : h \in Hops}

\* The command each operation hands to sendCommand.
OpCommand(o) ==
  CASE o.name = "authenticate" -> AuthenticateCommand(o.a)
    [] o.name = "quit" -> QuitCommand
    [] o.name = "getConfig" -> Tokens(<<<<"GETCONF">>, o.a>>)
    [] o.name = "setConfig" -> Tokens(<<<<"SETCONF">>, o.a \o <<"=">> \o o.b>>)
    [] o.name = "resetConfig" -> Tokens(<<<<"RESETCONF">>, o.a>>)
    [] o.name = "signal" -> Tokens(<<<<"SIGNAL">>, o.a>>)
    [] o.name \in SignalAliases -> Tokens(<<<<"SIGNAL">>, AliasSignal(o.name)>>)
    [] o.name = "getInfo" -> Tokens(<<<<"GETINFO">>, o.a>>)
    [] o.name = "mapAddress" -> Tokens(<<<<"MAPADDRESS">>, o.a \o <<"=">> \o o.b>>)
    [] o.name = "extendCircuit" -> Tokens(<<<<"EXTENDCIRCUIT">>, o.a>>)
    [] o.name = "setCircuitPurpose" -> Tokens(<<<<"SETCIRCUITPURPOSE">>, o.a, o.b>>)
    [] o.name = "setRouterPurpose" -> Tokens(<<<<"SETROUTERPURPOSE">>, o.a, o.b>>)
    [] o.name = "setStream" -> Tokens(<<<<"CLOSESTREAM">>, o.a, o.b>>)
    [] o.name = "closeCircuit" -> Tokens(<<<<"CLOSECIRCUIT">>, o.a>>)
    [] o.name = "attachStream" ->
         Tokens(<<<<"ATTACHSTREAM">>, o.a, o.b, HopToken(o.hop)>>)

\* getConfig after its sendCommand settled: data.message.split('=')[1].
getConfig(ret) ==
  LET picked == solveAndPick(ret) IN
    IF picked.kind = "undefined"
    THEN Thrown("TypeError")       \* reading .message of undefined
    ELSE IF picked.kind # "data" THEN picked
    ELSE LET parts == Split(picked.data.message, "=") IN
           IF Len(parts) >= 2 THEN ReturnData(parts[2]) ELSE ReturnUndefined

\* What the operation returns once its sendCommand settled with ret.
OpReturn(o, ret) ==
  IF o.name = "signal" THEN ret
  ELSE IF o.name = "getConfig" THEN getConfig(ret)
  ELSE solveAndPick(ret)

\* The replies of the daemon to an operation: a first line and up to
\* MaxLines - 1 further ones, each ended by CR LF, or a bare CR LF.
OpLines ==
  {<<"2", "5", "0", " ">> \o k \o <<"=">> \o v : k \in ConfKeys, v \in ConfValues}
    \cup {<<"2", "5", "0", " ", "O", "K">>, <<"5", "5", "2", " ", "k">>}
RestLines == {<<"2", "5", "0", " ", "O", "K">>, <<"6", "5", "0", " ", "k", "=", "v">>}

Terminated(lines) == Compose(lines, [i \in 1..Len(lines) |-> CRLF])

OpBursts ==
  {CRLF} \cup {Terminated(<<l>> \o r) : l \in OpLines, r \in SeqsUpTo(RestLines, MaxLines - 1)}

NotSet == [set |-> FALSE, value |-> <<>>]

IdleOps ==
  /\ op = Op("quit", <<>>, <<>>, NoHop)
  /\ opSent = <<>>
  /\ opRet = NoReturn
  /\ opOut = NoReturn
  /\ opSet = NotSet

\* ------------------------------------------------------------------ addressing
\* A property of the constructor's argument: not an own property of the object,
\* an own property holding undefined, or an own property holding a value.
Absent(blank) == [own |-> FALSE, defined |-> FALSE, value |-> blank]
Undefined(blank) == [own |-> TRUE, defined |-> FALSE, value |-> blank]
Given(v) == [own |-> TRUE, defined |-> TRUE, value |-> v]

DefaultHost == "localhost"
DefaultPort == 9051

HostArgs == {Absent(""), Undefined(""), Given(DefaultHost), Given("tor.example")}
PortArgs == {Absent(0), Undefined(0), Given(DefaultPort), Given(DefaultPort + 100)}
PathArgs == {Absent(""), Undefined(""), Given(""), Given("/run/tor.sock")}

ConfigArgs == [host : HostArgs, port : PortArgs, socketPath : PathArgs]

\* The constructor: host and port get their defaults when the argument has no
\* own property of that name.
constructor(arg) ==
  [host |-> IF ~arg.host.own THEN Given(DefaultHost) ELSE arg.host,
   port |-> IF ~arg.port.own THEN Given(DefaultPort) ELSE arg.port,
   socketPath |-> arg.socketPath]

\* A string used as a condition: undefined and '' are falsy.
Truthy(p) == p.defined /\ p.value # ""

\* The argument of net.connect in connect(): the socket path if it is truthy,
\* else { port, host } as _config holds them.  net.connect itself takes
\* 'localhost' for a host that is not given.
ConnectTarget(cfg) ==
  IF Truthy(cfg.socketPath)
  THEN [mode |-> "path", path |-> cfg.socketPath.value,
        host |-> "", port |-> Absent(0)]
  ELSE [mode |-> "tcp", path |-> "",
        host |-> IF Truthy(cfg.host) THEN cfg.host.value ELSE "localhost",
        port |-> cfg.port]

IdleAddr ==
  /\ given = [host |-> Absent(""), port |-> Absent(0), socketPath |-> Absent("")]
  /\ addrConfig = constructor(given)
  /\ targets = <<>>

\* ------------------------------------------------------------------ actions
ReplyOk == <<"2", "5", "0", " ", "k", CR, LF>>
ReplyFail == <<"5", "1", "5", " ", "k", CR, LF>>
SessionBursts == {ReplyOk, ReplyFail}

InitSession ==
  /\ connection = NoSocket
  /\ state = "disconnected"
  /\ config \in Configs
  /\ errorListener = FALSE
  /\ sockets = [s \in SocketIds |-> NewSocket]
  /\ calls = <<>>
  /\ discs = <<>>
  /\ crashed = FALSE

IdleParse ==
  /\ pLines = <<>>
  /\ pSeps = <<>>
  /\ pOut = NoReturn

Init == InitSession /\ IdleParse /\ IdleOps /\ IdleAddr

\* The caller registers a listener for the session's 'error' event.
OnError ==
  /\ ~crashed
  /\ ~errorListener
  /\ errorListener' = TRUE
  /\ UNCHANGED <<connection, state, config, sockets, calls, discs, crashed, pvars, ovars, avars>>

\* The caller calls connect(); connection attempts are serialized by the caller,
\* and a session is connected again only once it holds no live transport.
Connect ==
  /\ ~crashed
  /\ \A s \in SocketIds : connection = s => sockets[s].status = "closed"
  /\ \E s \in SocketIds : sockets[s].status = "unused"
  /\ \A s \in SocketIds :
       ~(sockets[s].connectResult = "pending" /\ sockets[s].status \in {"open", "ended"})
  /\ config.password # "" => Len(calls) < MaxCalls
  /\ Commit(connect(Session))
  /\ UNCHANGED <<config, errorListener, pvars, ovars, avars>>

\* The cookie file read of a connect() completes or fails.
CookieRead ==
  /\ ~crashed
  /\ Len(calls) < MaxCalls
  /\ \E s \in SocketIds, readOk \in BOOLEAN :
       /\ sockets[s].cookie = "reading"
       /\ Commit(authenticateWithCookie(Session, s, readOk))
  /\ UNCHANGED <<config, errorListener, pvars, ovars, avars>>

\* The caller calls sendCommand(command).
SendCommand ==
  /\ ~crashed
  /\ Len(calls) < MaxCalls
  /\ \E command \in UserCommands :
       Commit(Settle(sendCommand(Session, "user", 0, command), Len(calls) + 1))
  /\ UNCHANGED <<config, errorListener, pvars, ovars, avars>>

\* The caller calls disconnect().
Disconnect ==
  /\ ~crashed
  /\ Len(discs) < MaxDisconnects
  /\ connection # NoSocket => Len(calls) < MaxCalls
  /\ Commit(disconnect(Session))
  /\ UNCHANGED <<config, errorListener, pvars, ovars, avars>>

\* The daemon's bytes arrive: the socket emits 'data'.
SocketData ==
  /\ ~crashed
  /\ \E s \in SocketIds, str \in SessionBursts :
       /\ sockets[s].status \in {"open", "ended"}
       /\ Commit(OnData(Session, s, str))
  /\ UNCHANGED <<config, errorListener, pvars, ovars, avars>>

\* The socket emits 'error' and then 'close'.
SocketError ==
  /\ ~crashed
  /\ \E s \in SocketIds :
       /\ sockets[s].status \in {"open", "ended"}
       /\ Commit(OnSocketError(Session, s))
  /\ UNCHANGED <<config, errorListener, pvars, ovars, avars>>

\* The socket emits 'close': after end(), or when the daemon hangs up.
SocketClose ==
  /\ ~crashed
  /\ \E s \in SocketIds :
       /\ sockets[s].status \in {"open", "ended"}
       /\ Commit(OnSocketClose(Session, s))
  /\ UNCHANGED <<config, errorListener, pvars, ovars, avars>>

Next ==
  \/ OnError
  \/ Connect
  \/ CookieRead
  \/ SendCommand
  \/ Disconnect
  \/ SocketData
  \/ SocketError
  \/ SocketClose

Spec == Init /\ [][Next]_vars

\* ------------------------------------------------------------------ reply parser alone
InitParse ==
  /\ InitSession
  /\ config = [password |-> "", cookiePath |-> ""]
  /\ \E n \in 1..MaxLines :
       /\ pLines \in [1..n -> LineSamples]
       /\ pSeps \in {s \in [1..n -> Separators \cup {<<>>}] :
                       \A i \in 1..(n - 1) : s[i] # <<>>}
  /\ pOut = NoReturn
  /\ IdleOps
  /\ IdleAddr

\* The data handler of a sendCommand runs on the burst.
Parse ==
  /\ pOut = NoReturn
  /\ pOut' = DataHandler(Compose(pLines, pSeps))
  /\ UNCHANGED <<pLines, pSeps, svars, ovars, avars>>

NextParse == Parse

SpecParse == InitParse /\ [][NextParse]_vars

\* ------------------------------------------------------------------ convenience operations alone
InitOps ==
  /\ InitSession
  /\ config = [password |-> "", cookiePath |-> ""]
  /\ IdleParse
  /\ op \in Operations
  /\ opSent = <<>>
  /\ opRet = NoReturn
  /\ opOut = NoReturn
  /\ opSet = NotSet
  /\ IdleAddr

\* The operation's sendCommand finds a transport and writes the command.
OpSend ==
  /\ opOut.kind = "none"
  /\ opSent = <<>>
  /\ opSent' = CommandLine(OpCommand(op)) \o <<"\r\n">>
  /\ UNCHANGED <<op, opRet, opOut, opSet, svars, pvars, avars>>

\* The operation's sendCommand finds no transport: it returns the error, or
\* throws from emit('error') when nobody listens.
OpNotConnected ==
  /\ opOut.kind = "none"
  /\ opSent = <<>>
  /\ opRet' = IF EmitErrorThrows THEN Thrown("Unhandled error")
              ELSE ReturnError("TorControl not connected")
  /\ opOut' = OpReturn(op, opRet')
  /\ UNCHANGED <<op, opSent, opSet, svars, pvars, avars>>

\* The daemon's reply arrives; it keeps the value of a SETCONF it answers with 250.
OpReply ==
  /\ opOut.kind = "none"
  /\ opSent # <<>>
  /\ \E str \in OpBursts :
       /\ opRet' = DataHandler(str)
       /\ opOut' = OpReturn(op, opRet')
       /\ opSet' = IF /\ op.name = "setConfig"
                      /\ opRet'.data # <<>>
                      /\ opRet'.data[1].code = 250
                   THEN [set |-> TRUE, value |-> op.b]
                   ELSE opSet
  /\ UNCHANGED <<op, opSent, svars, pvars, avars>>

\* The caller calls the next operation.
OpNext ==
  /\ opOut.kind # "none"
  /\ op' \in Operations
  /\ opSent' = <<>>
  /\ opRet' = NoReturn
  /\ opOut' = NoReturn
  /\ UNCHANGED <<opSet, svars, pvars, avars>>

NextOps ==
  \/ OnError
  \/ OpSend
  \/ OpNotConnected
  \/ OpReply
  \/ OpNext

SpecOps == InitOps /\ [][NextOps]_vars

\* ------------------------------------------------------------------ addressing alone
InitAddr ==
  /\ InitSession
  /\ config = [password |-> "", cookiePath |-> ""]
  /\ IdleParse
  /\ IdleOps
  /\ given \in ConfigArgs
  /\ addrConfig = constructor(given)
  /\ targets = <<>>

\* connect() opens its transport.
ConnectTo ==
  /\ Len(targets) < MaxSockets
  /\ targets' = Append(targets, ConnectTarget(addrConfig))
  /\ UNCHANGED <<given, addrConfig, svars, pvars, ovars>>

NextAddr == ConnectTo

SpecAddr == InitAddr /\ [][NextAddr]_vars

\* ------------------------------------------------------------------ properties
\* Comparisons with NaN are false.
Below400(code) == code # NaN /\ code < 400
AtLeast400(code) == code # NaN /\ code >= 400

CallIds == 1..Len(calls)
DiscIds == 1..Len(discs)

\* C1: state reads 'disconnected' before connect(); once connect() has completed
\* successfully with a password configured, state reads 'connected' for as long as
\* disconnect() was not called and the transport did not close.
C1_StateFollowsConnect ==
  /\ (\A s \in SocketIds : sockets[s].status = "unused") => state = "disconnected"
  /\ \A s \in SocketIds :
       ( /\ config.password # ""
         /\ connection = s
         /\ sockets[s].connectResult = "ok"
         /\ sockets[s].status = "open"
         /\ discs = <<>> )
       => state = "connected"

\* C2: in every reachable state the transport handle is non-null if and only if
\* state is 'connected'.
C2_HandleIffConnected == (connection # NoSocket) <=> (state = "connected")

\* C3: with a password or a cookie configured, connect() reports success only
\* after AUTHENTICATE was written and its reply was received with a code below 400.
C3_SuccessOnlyAfterAuthReply ==
  \A s \in SocketIds :
    ( /\ config.password # "" \/ config.cookiePath # ""
      /\ sockets[s].connectResult = "ok" )
    => \E c \in CallIds :
         /\ calls[c].purpose = "auth"
         /\ calls[c].owner = s
         /\ calls[c].status = "resolved"
         /\ calls[c].result.data # <<>>
         /\ Below400(calls[c].result.data[1].code)

\* C4: whenever connect() failed, state is 'disconnected', the session no longer
\* holds the transport and the socket was closed.
C4_FailedConnectReleases ==
  \A s \in SocketIds :
    sockets[s].connectResult \in ConnectErrors
    => /\ state = "disconnected"
       /\ connection # s
       /\ sockets[s].status \in {"ended", "closed"}

\* C5: once the first inbound chunk was seen not to start with 250, connect() has
\* reported an error (and so never reports success).
C5_BadHandshakeReportsError ==
  \A s \in SocketIds :
    sockets[s].hs = "bad" => sockets[s].connectResult \in ConnectErrors

\* The code of line i of the burst as the daemon composed it.
WireCode(i) == Number(Substring(pLines[i], 0, 3))

\* C6: a burst of N non-empty lines with codes below 400, separated by CRLF or LF,
\* resolves with exactly N entries in wire order, entry i holding the number formed
\* by the first 3 characters of line i and its text from offset 4 on.
C6_ReplyListMatchesWire ==
  ( /\ pOut.kind # "none"
    /\ \A i \in 1..Len(pLines) : Below400(WireCode(i)) )
  => /\ pOut.kind = "data"
     /\ Len(pOut.data) = Len(pLines)
     /\ \A i \in 1..Len(pLines) :
          /\ pOut.data[i].code = WireCode(i)
          /\ pOut.data[i].message = SubSeq(pLines[i], 5, Len(pLines[i]))

\* C6, its case: two lines, an empty segment between them, a hyphen as the 4th
\* character of the first, and a message after it.
C6_Witness ==
  /\ pOut.kind = "data"
  /\ Len(pLines) = 2
  /\ pSeps = <<<<LF, CR, LF>>, CRLF>>
  /\ pLines[1] = <<"2", "5", "0", "-", "a">>
  /\ Len(pOut.data) = 2
  /\ pOut.data[1] = [code |-> 250, message |-> <<"a">>]

\* C7: a burst in which some line carries a code of 400 or above makes sendCommand
\* fail with an error that carries that line's message.
C7_FailingLineRejects ==
  ( /\ pOut.kind # "none"
    /\ \E i \in 1..Len(pLines) : AtLeast400(WireCode(i)) )
  => /\ pOut.kind = "error"
     /\ \E i \in 1..Len(pLines) :
          /\ AtLeast400(WireCode(i))
          /\ pOut.error = SubSeq(pLines[i], 5, Len(pLines[i]))

\* C8: a sendCommand issued by the caller while state is 'disconnected' and the
\* session has no live transport (never connected, disconnected, or the transport
\* closed) fails with the not-connected error and writes to no transport.
C8_DisconnectedSendFails ==
  \A c \in CallIds :
    ( /\ calls[c].purpose = "user"
      /\ calls[c].stateAtCall = "disconnected"
      /\ calls[c].downAtCall )
    => /\ calls[c].status \in {"error", "threw"}
       /\ calls[c].sock = NoSocket

\* C9: a disconnect() called while the session holds a transport writes QUIT to it,
\* calls end() only after the QUIT reply was received, and has returned only with
\* the transport ended, the handle null and state 'disconnected'.
C9_DisconnectQuitsThenReleases ==
  \A d \in DiscIds :
    discs[d].connAtCall # NoSocket
    => LET c == discs[d].call
           s == discs[d].connAtCall
       IN /\ c \in CallIds
          /\ calls[c].purpose = "quit"
          /\ calls[c].sock = s
          /\ \E i \in 1..Len(sockets[s].written) :
               sockets[s].written[i] = <<"QUIT", "\r\n">>
          /\ \A x \in SocketIds : \A i \in 1..Len(sockets[x].endedBy) :
               sockets[x].endedBy[i] = d => calls[c].status = "resolved"
          /\ discs[d].pc = "done"
             => /\ calls[c].status = "resolved"
                /\ \E x \in SocketIds : \E i \in 1..Len(sockets[x].endedBy) :
                     sockets[x].endedBy[i] = d /\ sockets[x].status \in {"ended", "closed"}
                /\ discs[d].connAtReturn = NoSocket
                /\ discs[d].stateAtReturn = "disconnected"

\* C9, its case: a disconnect() on a session holding a transport has returned.
C9_Witness ==
  \E d \in DiscIds :
    /\ discs[d].connAtCall # NoSocket
    /\ discs[d].pc = "done"
    /\ calls[discs[d].call].status = "resolved"

\* disconnect() number d was called on a session that never opened a transport,
\* or right after an earlier disconnect() had returned with no connect() between.
CalledAgain(d) ==
  \/ discs[d].opened = 0
  \/ /\ d > 1
     /\ discs[d].prevReturned
     /\ discs[d].opened = discs[d - 1].opened

\* C10: a disconnect() called again, or on a session never connected, raises
\* nothing, sends no command and leaves state 'disconnected'.
C10_DisconnectIdempotent ==
  \A d \in DiscIds :
    CalledAgain(d)
    => /\ discs[d].pc = "done"
       /\ discs[d].call = 0
       /\ \A c \in CallIds : ~(calls[c].purpose = "quit" /\ calls[c].owner = d)
       /\ discs[d].stateAtReturn = "disconnected"
       /\ discs[d].connAtReturn = NoSocket

\* C10, its case: a disconnect() that released a transport, then a second one.
C10_Witness ==
  \E d \in DiscIds :
    /\ d > 1
    /\ discs[d - 1].connAtCall # NoSocket
    /\ discs[d].prevReturned
    /\ discs[d].opened = discs[d - 1].opened
    /\ discs[d].pc = "done"

\* C11: once disconnect() was called on a connected session, the transport is closed
\* and the handle released on every path, and disconnect() returns.  Stated on the
\* path where the transport closes during the QUIT round-trip: no reply can arrive
\* on a closed transport any more, so by then the disconnect() has returned and the
\* session no longer holds that transport.
C11_DisconnectAlwaysReleases ==
  \A d \in DiscIds :
    LET s == discs[d].connAtCall IN
      (s # NoSocket /\ sockets[s].status = "closed")
        => (discs[d].pc = "done" /\ connection # s)

\* C12: once the transport has emitted 'close' or 'error', state is 'disconnected'
\* and the session no longer holds that transport; state is 'connected' only after
\* a connect() that succeeded.
C12_CloseReleasesHandle ==
  /\ \A s \in SocketIds :
       sockets[s].status = "closed" => (state = "disconnected" /\ connection # s)
  /\ state = "connected" => \E s \in SocketIds : sockets[s].connectResult = "ok"

\* C13: an operation that was waiting for its reply when the transport emitted
\* 'error' has settled with an error (the error handler itself did not throw).
C13_TransportErrorSettlesPending ==
  ~crashed =>
    \A s \in SocketIds : \A c \in sockets[s].pendingAtError :
      calls[c].status = "error"

\* C14: when a second sendCommand is issued before the first has resolved, the
\* two calls never both resolve with the same reply burst: no single 'data' event
\* resolves two calls that were both waiting.
C14_ConcurrentCallsGetOwnReplies ==
  [][\A c1 \in CallIds : \A c2 \in CallIds :
       ( /\ c1 < c2
         /\ calls[c1].status = "pending"
         /\ calls[c2].status = "pending"
         /\ calls'[c1].status = "resolved" )
       => calls'[c2].status # "resolved"]_vars

\* The calls that reached socket s, in call order.
CallsOn(s) == SelectSeq([i \in 1..Len(calls) |-> i], LAMBDA i : calls[i].sock = s)

\* The offset in the joined text at which token k starts.
RECURSIVE TokenOffset(_, _)
TokenOffset(tokens, k) ==
  IF k = 1 THEN 0 ELSE TokenOffset(tokens, k - 1) + Len(tokens[k - 1]) + 1

\* text is the tokens in order with exactly one space between two of them.
JoinedBySpaces(text, tokens) ==
  LET n == Len(tokens) IN
    IF n = 0 THEN text = <<>>
    ELSE /\ Len(text) = TokenOffset(tokens, n) + Len(tokens[n])
         /\ \A k \in 1..n :
              SubSeq(text, TokenOffset(tokens, k) + 1,
                     TokenOffset(tokens, k) + Len(tokens[k])) = tokens[k]
         /\ \A k \in 1..(n - 1) :
              text[TokenOffset(tokens, k) + Len(tokens[k]) + 1] = " "

\* text is what one write for `command` carries: its line, then CR LF.
IsWireOf(text, command) ==
  /\ text # <<>>
  /\ text[Len(text)] = "\r\n"
  /\ LET line == SubSeq(text, 1, Len(text) - 1) IN
       IF command.isArray THEN JoinedBySpaces(line, command.parts)
       ELSE line = command.parts

\* C15: every sendCommand that reaches the transport performs exactly one write:
\* the writes on a socket are, in order, one per call, each the call's tokens
\* joined by single spaces (or its pre-formatted line unchanged) followed by CR LF.
C15_OneWritePerCommand ==
  \A s \in SocketIds :
    /\ Len(sockets[s].written) = Len(CallsOn(s))
    /\ \A i \in 1..Len(CallsOn(s)) :
         IsWireOf(sockets[s].written[i], calls[CallsOn(s)[i]].command)

\* An array command and a pre-formatted line were both written and answered.
C15_Witness ==
  \E c1 \in CallIds : \E c2 \in CallIds :
    /\ calls[c1].command.isArray /\ calls[c1].status = "resolved"
    /\ ~calls[c2].command.isArray /\ calls[c2].status = "resolved"
    /\ Len(sockets[calls[c1].sock].written) = 2

\* The operations that return one Reply Line.
SingleResultOps == {o \in Operations : o.name \notin {"signal", "getConfig"}}

\* C16: a single-result convenience operation returns exactly the first Reply Line
\* of the list its sendCommand produced, and sendCommand's error unchanged;
\* signal(sig) returns what sendCommand returned, the full Reply List.
C16_PickFirstLine ==
  opOut.kind # "none" =>
    /\ (op \in SingleResultOps /\ opRet.kind = "error") => opOut = opRet
    /\ (op \in SingleResultOps /\ opRet.kind = "data" /\ opRet.data # <<>>)
         => (opOut.kind = "data" /\ opOut.data = opRet.data[1])
    /\ op.name = "signal" => opOut = opRet

\* A single-result operation was answered with two different lines and returned
\* the first.
C16_Witness ==
  /\ op \in SingleResultOps
  /\ opRet.kind = "data"
  /\ Len(opRet.data) = 2
  /\ opRet.data[1] # opRet.data[2]
  /\ opOut.kind = "data"
  /\ opOut.data = opRet.data[1]

\* C17: after a successful setConfig(key, value), a getConfig(key) whose reply
\* echoes key=value returns value unchanged, also when value contains '='.
C17_GetConfigRoundTrip ==
  ( /\ op.name = "getConfig"
    /\ opSet.set
    /\ opRet.kind = "data"
    /\ opRet.data # <<>>
    /\ opRet.data[1].message = op.a \o <<"=">> \o opSet.value )
  => (opOut.kind = "data" /\ opOut.data = opSet.value)

\* The bytes of the two forms of AUTHENTICATE on the wire.
AuthPasswordWire == <<"AUTHENTICATE \"", config.password, "\"", "\r\n">>
AuthCookieWire == <<"AUTHENTICATE ", "c", "0", "0", "c", "1", "e", "\r\n">>

\* The writes on socket s that carry an AUTHENTICATE command.
AuthWrites(s) ==
  {i \in 1..Len(sockets[s].written) :
     sockets[s].written[i][1] \in {"AUTHENTICATE \"", "AUTHENTICATE "}}

\* C18: with a password configured (a cookie path being configured too or not),
\* connect() writes AUTHENTICATE "<password>" as its first command and no cookie
\* form is ever written; with only a cookie path, the one AUTHENTICATE written
\* after the file was read carries the hex encoding of the file's bytes; with
\* neither, no AUTHENTICATE is written and no authentication is started.
C18_AuthCommandFollowsConfig ==
  \A s \in SocketIds :
    /\ config.password # "" =>
         /\ sockets[s].status # "unused" =>
              (sockets[s].written # <<>> /\ sockets[s].written[1] = AuthPasswordWire)
         /\ AuthWrites(s) \subseteq {1}
         /\ sockets[s].cookie = "none"
    /\ (config.password = "" /\ config.cookiePath # "") =>
         /\ \A i \in AuthWrites(s) : sockets[s].written[i] = AuthCookieWire
         /\ Cardinality(AuthWrites(s)) <=
              Cardinality({c \in CallIds : calls[c].purpose = "auth" /\ calls[c].sock = s})
         /\ sockets[s].cookie = "done" =>
              \E c \in CallIds :
                /\ calls[c].purpose = "auth"
                /\ calls[c].owner = s
                /\ calls[c].sock # NoSocket =>
                     \E i \in AuthWrites(calls[c].sock) :
                       sockets[calls[c].sock].written[i] = AuthCookieWire
    /\ (config.password = "" /\ config.cookiePath = "") =>
         /\ AuthWrites(s) = {}
         /\ \A c \in CallIds : calls[c].purpose # "auth"

\* Password and cookie path are both configured and connect() wrote the password form.
C18_Witness ==
  /\ config.password # ""
  /\ config.cookiePath # ""
  /\ \E s \in SocketIds :
       /\ sockets[s].written # <<>>
       /\ sockets[s].written[1] = AuthPasswordWire
       /\ sockets[s].connectResult = "ok"

\* C19: when the cookie file cannot be read, no AUTHENTICATE is written for that
\* connect() and the connect() fails with the error naming the read failure.
C19_UnreadableCookieFailsConnect ==
  \A s \in SocketIds :
    sockets[s].cookie = "failed" =>
      /\ sockets[s].connectResult = "CookieReadError"
      /\ AuthWrites(s) = {}
      /\ \A c \in CallIds : ~(calls[c].purpose = "auth" /\ calls[c].owner = s)

\* The listeners registered for call c, over all sockets.
ListenersOf(c) ==
  {<<s, i>> \in SocketIds \X (1..(MaxCalls + 1)) :
     /\ i <= Len(sockets[s].dataOnce)
     /\ sockets[s].dataOnce[i] = [kind |-> "command", call |-> c]}

\* C20: each sendCommand consumes exactly one inbound data event.  A call has one
\* listener, on its own socket, exactly while it waits, and none afterwards; a
\* call settles only by a 'data' event, with the lines of that chunk; a 'data'
\* event that runs the listeners of a socket resolves every call waiting on it (so
\* a call gets the first chunk after its write); and a resolved call never changes.
C20_OneDataEventPerCommand ==
  /\ [](\A c \in CallIds :
         /\ Cardinality(ListenersOf(c)) = IF calls[c].status = "pending" THEN 1 ELSE 0
         /\ \A l \in ListenersOf(c) : l[1] = calls[c].sock)
  /\ [][\A c \in CallIds :
         /\ calls[c].status = "resolved" => calls'[c] = calls[c]
         /\ (calls[c].status = "pending" /\ calls'[c].status # "pending") =>
              /\ calls'[c].status = "resolved"
              /\ \E str \in SessionBursts : calls'[c].result = DataHandler(str)
              /\ sockets'[calls[c].sock].dataOnce = <<>>
         /\ ( /\ calls[c].status = "pending"
              /\ Len(sockets'[calls[c].sock].dataOnce) < Len(sockets[calls[c].sock].dataOnce)
              /\ ~crashed' )
            => calls'[c].status = "resolved"]_vars

\* Two calls on one socket were resolved by two different chunks: the later
\* chunk resolved the second call and left the result of the first alone.
C20_Witness ==
  \E c1 \in CallIds : \E c2 \in CallIds :
    /\ c1 < c2
    /\ calls[c1].sock = calls[c2].sock
    /\ calls[c1].status = "resolved"
    /\ calls[c2].status = "resolved"
    /\ calls[c1].result # calls[c2].result

\* C21: in connect() the AUTHENTICATE command is written only after the first
\* inbound chunk was received and found to start with 250: a socket that carries
\* an AUTHENTICATE has passed its handshake check.
C21_AuthAfterHandshake ==
  \A s \in SocketIds : AuthWrites(s) # {} => sockets[s].hs = "ok"

\* The decimal digits of the sample hop numbers, written out.
HopDigits(n) ==
  CASE n = 0 -> <<"0">>
    [] n = 1 -> <<"1">>
    [] n = 12 -> <<"1", "2">>

\* C22: attachStream(streamId, circuitId, hop) writes ATTACHSTREAM, the stream
\* id, the circuit id and a fourth token: the hop number for every hop that is
\* given (0 included), the empty token only when hop is absent.
C22_AttachStreamWritesHop ==
  (op.name = "attachStream" /\ opSent # <<>>) =>
    opSent = <<"ATTACHSTREAM", " ">> \o op.a \o <<" ">> \o op.b \o <<" ">>
               \o (IF op.hop.defined THEN HopDigits(op.hop.n) ELSE <<>>)
               \o <<"\r\n">>

\* The property holds a value the caller configured.
Configured(p) == p.defined /\ p.value # ""

\* C23: every connect() uses the socket path whenever one is configured, host
\* and port being set or not; otherwise host:port, with host localhost and port
\* 9051 when the configuration does not give them.
C23_OneAddressingMode ==
  \A i \in 1..Len(targets) :
    IF Configured(given.socketPath)
    THEN targets[i].mode = "path" /\ targets[i].path = given.socketPath.value
    ELSE /\ targets[i].mode = "tcp"
         /\ targets[i].host = IF Configured(given.host) THEN given.host.value
                              ELSE "localhost"
         /\ targets[i].port = IF given.port.defined THEN given.port
                              ELSE Given(9051)

\* C24: whenever sendCommand handed an operation a data list or an error, what
\* the operation returns carries exactly one of data and error, with data a
\* defined value: also for a burst without any non-empty line and for a GETCONF
\* reply whose message holds no '='.
C24_ExactlyOneOfDataOrError ==
  opRet.kind \in {"data", "error"} => opOut.kind = opRet.kind

\* C25: when disconnect() is called again while an earlier disconnect() on the
\* same transport still waits for its QUIT reply, neither call throws, the
\* transport is ended exactly once, and once both have returned the session no
\* longer holds it.
C25_OverlappingDisconnects ==
  \A d1 \in DiscIds : \A d2 \in DiscIds :
    ( /\ d1 < d2
      /\ discs[d1].connAtCall # NoSocket
      /\ discs[d2].connAtCall = discs[d1].connAtCall )
    => LET s == discs[d1].connAtCall IN
         /\ discs[d1].pc # "threw"
         /\ discs[d2].pc # "threw"
         /\ Len(sockets[s].endedBy) <= 1
         /\ (discs[d1].pc = "done" /\ discs[d2].pc = "done") =>
              (Len(sockets[s].endedBy) = 1 /\ connection # s)

\* C26: a failing operation hands its error to the caller as an { error } result
\* and never throws, an 'error' listener being registered or not: no sendCommand
\* throws, one without a transport returns the error, and a connect() whose
\* handshake check or cookie read failed has resolved with an error.
C26_FailuresNeverThrow ==
  /\ \A c \in CallIds :
       /\ calls[c].status # "threw"
       /\ calls[c].sock = NoSocket => calls[c].status = "error"
  /\ \A s \in SocketIds :
       /\ sockets[s].hs = "bad" => sockets[s].connectResult \in ConnectErrors
       /\ sockets[s].cookie = "failed" => sockets[s].connectResult # "pending"

====
